---- MODULE Spec2Model ----
(***************************************************************************)
(* Gateway / supervisor of src/main.py: path-based request dispatch, the   *)
(* CustomCircuitBreaker class, and the periodic health monitor.            *)
(*                                                                         *)
(* dispatch (main.py:115-130) calls requests.get directly: it holds no     *)
(* reference to any CustomCircuitBreaker.  The breaker objects of the      *)
(* model are instances of the class, one per route name, driven through    *)
(* the class's own call() (main.py:67-73).                                 *)
(***************************************************************************)
EXTENDS Integers, Sequences, FiniteSets, TLC

(* ---------------------------- bounds ----------------------------------- *)
MaxSegs == 2        \* longest request path, in segments
TimeStep == 30      \* seconds by which the clock advances in one step
MaxTime == 90       \* the clock stops here
MaxInFlight == 2    \* calls inside breaker.call() at the same time, in total
MaxCalls == 6       \* calls made on the breakers in one run, in total
MaxAlerts == 2      \* alerts counted per Open episode of one breaker
MaxFactor == 2      \* largest SCALING_FACTOR of the environments drawn

(* ------------------------ program constants ---------------------------- *)
FAILURE_THRESHOLD == 3          \* main.py:63 failure_threshold=3
RECOVERY_TIMEOUT == 60          \* main.py:63 recovery_timeout=60
HEALTH_CHECK_INTERVAL == 60     \* main.py:37
HTTP_503_SERVICE_UNAVAILABLE == 503   \* main.py:128
SCALING_FACTOR == 1             \* main.py:36 (default)
CONTAINER_PORT == 8000          \* main.py:137 f"{port}:8000"

\* main.py:30-34; dict order is the iteration order of .items()/.keys()
SUBAPP_PORTS == [main |-> 8000, subapp1 |-> 8001, subapp2 |-> 8002]
Names == DOMAIN SUBAPP_PORTS
NameOrder == <<"main", "subapp1", "subapp2">>

\* The environment: SUBAPP_PORTS and SCALING_FACTOR are read from os.getenv
\* at import (main.py:29-36); the names of the table are fixed by the source.
DefaultEnv == [ports |-> SUBAPP_PORTS, factor |-> SCALING_FACTOR]
PortChoices == {8000, 8001, 8002}
Envs == [ports : [Names -> PortChoices], factor : 1..MaxFactor]

(* ------------------------ request inputs ------------------------------- *)
\* A URL path "/s1/s2" is the sequence of its segments; "" is the empty
\* segment that a doubled or trailing slash produces ("/" is <<"">>).
Segments == {"", "main", "subapp1", "other"}
Paths == UNION {[1..n -> Segments] : n \in 1..MaxSegs}
Methods == {"GET", "POST"}
\* What the backend does with the outbound GET: an HTTP status, or a
\* network-level failure (requests.ConnectionError and the like).
HttpReply(code) == [net |-> "ok", status |-> code]
NetErr == [net |-> "error", status |-> 0]
\* the backend accepts the connection and never answers
NoAnswer == [net |-> "silent", status |-> 0]
Replies == {HttpReply(200), HttpReply(301), HttpReply(404), HttpReply(500), NetErr, NoAnswer}
\* The requests of the runs in which the breakers and the clock also act:
\* one path per route name, one unrouted path, a good and a failed reply.
RoutePaths == {<<"main">>, <<"subapp1">>, <<"subapp2">>, <<"other">>}
RouteReplies == {HttpReply(200), NetErr}
\* What one health probe can come to: 200, another status, or an exception
ProbeOutcomes == {"ok", "bad", "error"}

(* ------------------------------- state -------------------------------- *)
VARIABLES
    now,        \* the clock (time.monotonic), in seconds
    breaker,    \* the CustomCircuitBreaker objects, by name
    inflight,   \* per breaker: calls let through whose func has not come back
    calls,      \* calls made on the breakers so far
    alerts,     \* per breaker: send_alert invocations since it last closed
    trips,      \* per breaker: closed -> open transitions since it last closed
    reopened,   \* per breaker: whether a trial has failed since it last closed
    streak,     \* the current run of consecutive failed dispatches to one backend
    request,    \* the last request dispatched
    reply,      \* what its backend did with the outbound call
    response,   \* what the last dispatch handed to its caller
    outbound,   \* the outbound request of the last dispatch
    monitor,    \* the health_check task: unstarted, sleeping, dead
    wakeAt,     \* when the task's sleep ends
    probes,     \* per backend: its probe's outcome in the last tick
    restarts,   \* per backend: restart_service invocations in the last tick
    restartFailed, \* whether the last tick's restart raised
    rejection,  \* the last rejected call: what its caller got, how the alert went
    env,        \* the environment read at import: backend ports, scaling factor
    manifest,   \* the services of the docker-compose file last written
    builds,     \* the names 'docker-compose build' was invoked for, in order
    images,     \* the names whose image has been built
    fleet,      \* the docker-compose services: down, up
    steps,      \* the steps of __ainit__ that were invoked, in order
    startup,    \* __ainit__: none (not run), done, aborted
    raised,     \* the exception the last lifecycle operation let out
    shutdown    \* the SIGTERM handler: whether it ran, stop_services, sys.exit

breakerVars == <<breaker, inflight, calls, alerts, trips, reopened, rejection>>
dispatchVars == <<streak, request, reply, response, outbound>>
monitorVars == <<monitor, wakeAt, probes, restarts, restartFailed>>
lifecycleVars == <<env, manifest, builds, images, fleet, steps, startup, raised, shutdown>>
vars == <<now, breakerVars, dispatchVars, monitorVars, lifecycleVars>>

(* --------------------- dispatch: pure parts ---------------------------- *)
RECURSIVE LStrip(_)
LStrip(s) == IF s # <<>> /\ Head(s) = "" THEN LStrip(Tail(s)) ELSE s

RECURSIVE RStrip(_)
RStrip(s) == IF s # <<>> /\ s[Len(s)] = "" THEN RStrip(SubSeq(s, 1, Len(s) - 1)) ELSE s

\* request.url.path.strip('/')
StripSlashes(path) == RStrip(LStrip(path))

\* A variant that routes every unknown name to 'main'
SubappNameDefaultMain(path) ==
    LET p == StripSlashes(path) IN
    IF p = <<>> \/ Head(p) \notin Names THEN "main" ELSE Head(p)

\* 'main' if path == '' else path.split('/')[0]
SubappName(path) ==
    LET p == StripSlashes(path) IN IF p = <<>> THEN "main" ELSE Head(p)

\* response.raise_for_status(): HTTPError for 4xx and 5xx
RaisesForStatus(rep) == rep.net = "ok" /\ rep.status >= 400 /\ rep.status < 600

\* requests.get raised, or raise_for_status raised: both RequestException
IsRequestException(rep) == rep = NetErr \/ RaisesForStatus(rep)

NoCall == [port |-> 0, path |-> <<>>, method |-> "none", attempts |-> 0]

\* The outbound request dispatch issues for a request: one requests.get(url),
\* url = http://localhost:<port><request.url.path>
DispatchOutbound(path, method) ==
    LET n == SubappName(path) IN
    IF n \in Names
    THEN [port |-> SUBAPP_PORTS[n], path |-> path, method |-> "GET", attempts |-> 1]
    ELSE NoCall

\* Whether requests.get(url) comes back: it is called without a timeout, so
\* it waits for the backend's answer for as long as that takes
GetReturns(rep) == rep # NoAnswer

\* A variant with one failure count for all the backends: once any backend
\* has failed FAILURE_THRESHOLD times in a row every backend is answered 503
DispatchResponseGlobalBreaker(path, rep) ==
    LET n == SubappName(path) IN
    IF n \in Names
    THEN IF ~GetReturns(rep)
         THEN [kind |-> "pending", status |-> 0, who |-> n]
         ELSE IF IsRequestException(rep) \/ streak.count >= FAILURE_THRESHOLD
         THEN [kind |-> "http_exception", status |-> HTTP_503_SERVICE_UNAVAILABLE, who |-> n]
         ELSE [kind |-> "backend", status |-> rep.status, who |-> n]
    ELSE [kind |-> "call_next", status |-> 0, who |-> "app"]

\* What dispatch hands back to its caller; 'pending' while requests.get has
\* not come back
DispatchResponse(path, rep) ==
    LET n == SubappName(path) IN
    IF n \in Names
    THEN IF ~GetReturns(rep)
         THEN [kind |-> "pending", status |-> 0, who |-> n]
         ELSE IF IsRequestException(rep)
         THEN [kind |-> "http_exception", status |-> HTTP_503_SERVICE_UNAVAILABLE, who |-> n]
         ELSE [kind |-> "backend", status |-> rep.status, who |-> n]
    ELSE [kind |-> "call_next", status |-> 0, who |-> "app"]

NoRequest == [path |-> <<>>, method |-> "none"]
NoReply == [net |-> "none", status |-> 0]
NoStreak == [name |-> "none", count |-> 0]
NoRejection == [caller |-> "none", mail |-> "none"]
NoShutdown == [signalled |-> FALSE, stop |-> "none", exited |-> FALSE]

Init ==
    /\ now = 0
    /\ breaker = [n \in Names |-> [state |-> "closed", failure_count |-> 0, opened |-> 0]]
    /\ inflight = [n \in Names |-> 0]
    /\ calls = 0
    /\ alerts = [n \in Names |-> 0]
    /\ trips = [n \in Names |-> 0]
    /\ reopened = [n \in Names |-> FALSE]
    /\ streak = NoStreak
    /\ request = NoRequest
    /\ reply = NoReply
    /\ response = [kind |-> "none", status |-> 0, who |-> "none"]
    /\ outbound = NoCall
    /\ monitor = "unstarted"
    /\ wakeAt = 0
    /\ probes = [n \in Names |-> "none"]
    /\ restarts = [n \in Names |-> 0]
    /\ restartFailed = FALSE
    /\ rejection = NoRejection
    /\ env = DefaultEnv
    /\ manifest = {}
    /\ builds = <<>>
    /\ images = {}
    /\ fleet = "down"
    /\ steps = <<>>
    /\ startup = "none"
    /\ raised = "none"
    /\ shutdown = NoShutdown

(* ----------------- circuitbreaker.CircuitBreaker (base class) ---------- *)
\* The base class is imported (main.py:15), not part of the sources.  It is
\* modelled as CustomCircuitBreaker.call relies on it: call() raises
\* CircuitBreakerError while the breaker is open, counts failures, and
\* half-opens once recovery_timeout has elapsed.

\* state property: an open breaker whose timeout has elapsed reads half_open
BreakerState(b, t) ==
    IF b.state = "open" /\ (b.opened + RECOVERY_TIMEOUT) - t <= 0
    THEN "half_open" ELSE b.state

\* opened property: call() rejects exactly when this holds
Opened(b, t) == BreakerState(b, t) = "open"

\* a call returned normally (opened is read only while the state is open)
CallSucceeded(b) == [state |-> "closed", failure_count |-> 0, opened |-> 0]

\* a call raised
CallFailed(b, t) ==
    LET c == b.failure_count + 1 IN
    IF c >= FAILURE_THRESHOLD
    THEN [state |-> "open", failure_count |-> c, opened |-> t]
    ELSE [b EXCEPT !.failure_count = c]

(* ---------------------- CustomCircuitBreaker.call ---------------------- *)
TotalInFlight == inflight["main"] + inflight["subapp1"] + inflight["subapp2"]

\* The breaker objects after a call on breaker n has come back (ok or not):
\* only self is written.
BreakersAfterCall(brk, n, ok, t) ==
    [brk EXCEPT ![n] = IF ok THEN CallSucceeded(brk[n]) ELSE CallFailed(brk[n], t)]

\* How many alerts one rejected call sends: the except branch of call()
\* invokes send_alert once, whatever the mail transport does.
AlertsOnReject(mailOk) == 1

\* A variant of send_alert without its exception handler
SendAlertEscalating(mailOk) ==
    [mail |-> IF mailOk THEN "sent" ELSE "failed",
     raised |-> IF mailOk THEN "none" ELSE "SMTPException"]

\* send_alert: the mail transport raises (~mailOk); except Exception logs
\* the failure and lets nothing out
SendAlert(mailOk) ==
    [mail |-> IF mailOk THEN "sent" ELSE "failed", raised |-> "none"]

\* What the caller of call() gets from the except branch: an exception of
\* send_alert if one came out of it, else the CircuitBreakerError of 'raise e'
RejectedCallerGets(mailOk) ==
    IF SendAlert(mailOk).raised # "none" THEN SendAlert(mailOk).raised
    ELSE "CircuitBreakerError"

\* super().call raises CircuitBreakerError: log, send_alert, re-raise.
\* send_alert swallows every exception of the mail transport (mailOk).
CallRejected(n, mailOk) ==
    /\ Opened(breaker[n], now)
    /\ calls < MaxCalls
    /\ alerts[n] < MaxAlerts
    /\ calls' = calls + 1
    /\ alerts' = [alerts EXCEPT ![n] = @ + AlertsOnReject(mailOk)]
    /\ rejection' = [caller |-> RejectedCallerGets(mailOk), mail |-> SendAlert(mailOk).mail]
    /\ UNCHANGED <<now, breaker, inflight, trips, reopened, dispatchVars, monitorVars,
                   lifecycleVars>>

\* super().call lets the call through: func is running
CallEnter(n) ==
    /\ ~Opened(breaker[n], now)
    /\ calls < MaxCalls
    /\ TotalInFlight < MaxInFlight
    /\ calls' = calls + 1
    /\ inflight' = [inflight EXCEPT ![n] = @ + 1]
    /\ UNCHANGED <<now, breaker, alerts, trips, reopened, rejection, dispatchVars,
                   monitorVars, lifecycleVars>>

\* func returned (ok) or raised (~ok); no CircuitBreakerError, so no alert
CallReturn(n, ok) ==
    /\ inflight[n] > 0
    /\ inflight' = [inflight EXCEPT ![n] = @ - 1]
    /\ breaker' = BreakersAfterCall(breaker, n, ok, now)
    /\ trips' = [m \in Names |->
                    IF breaker'[m].state = "closed" THEN 0
                    ELSE IF breaker[m].state = "closed" THEN trips[m] + 1
                    ELSE trips[m]]
    /\ alerts' = [m \in Names |-> IF breaker'[m].state = "closed" THEN 0 ELSE alerts[m]]
    /\ reopened' = [m \in Names |->
                    IF breaker'[m].state = "closed" THEN FALSE
                    ELSE IF m = n /\ BreakerState(breaker[n], now) = "half_open" THEN TRUE
                    ELSE reopened[m]]
    /\ UNCHANGED <<now, calls, rejection, dispatchVars, monitorVars, lifecycleVars>>

(* ------------------------------ dispatch ------------------------------- *)
\* The run of consecutive network-level failures of dispatches to one
\* backend, counted up to the threshold (history of the run; dispatch
\* itself keeps no count).
StreakAfter(s, path, rep) ==
    LET n == SubappName(path) IN
    IF n \notin Names \/ ~GetReturns(rep) THEN s
    ELSE IF rep = NetErr
         THEN IF s.name = n
              THEN [s EXCEPT !.count = IF @ < FAILURE_THRESHOLD THEN @ + 1 ELSE @]
              ELSE [name |-> n, count |-> 1]
         ELSE IF s.name = n THEN NoStreak ELSE s

dispatch(path, method, rep) ==
    /\ request' = [path |-> path, method |-> method]
    /\ reply' = IF SubappName(path) \in Names THEN rep ELSE NoReply
    /\ response' = DispatchResponse(path, rep)
    /\ outbound' = DispatchOutbound(path, method)
    /\ streak' = StreakAfter(streak, path, rep)
    /\ UNCHANGED <<now, breakerVars, monitorVars, lifecycleVars>>

(* ---------------------------- health monitor --------------------------- *)
\* for subapp_name, port in SUBAPP_PORTS.items(): the position of the first
\* probe that raises, 0 when none does
RECURSIVE FirstError(_, _)
FirstError(outcomes, i) ==
    IF i > Len(NameOrder) THEN 0
    ELSE IF outcomes[NameOrder[i]] = "error" THEN i
    ELSE FirstError(outcomes, i + 1)

Position(n) == CHOOSE i \in 1..Len(NameOrder) : NameOrder[i] = n

\* The probes one tick makes: the for loop ends at the first exception
TickProbes(outcomes) ==
    LET e == FirstError(outcomes, 1) IN
    [n \in Names |-> IF e = 0 \/ Position(n) <= e THEN outcomes[n] ELSE "none"]

\* A variant that restarts every backend whose probe did not return 200
TickRestartsAllFailed(outcomes) ==
    [n \in Names |-> IF TickProbes(outcomes)[n] \in {"bad", "error"} THEN 1 ELSE 0]

\* The restart_service invocations of one tick: only in the except branch,
\* for the loop variable at the time of the exception
TickRestarts(outcomes) ==
    LET e == FirstError(outcomes, 1) IN
    [n \in Names |-> IF e # 0 /\ NameOrder[e] = n THEN 1 ELSE 0]

\* The task after a tick: restart_service re-raises CalledProcessError, and
\* nothing in health_check catches it
MonitorAfterTick(outcomes, restartOk) ==
    IF FirstError(outcomes, 1) # 0 /\ ~restartOk THEN "dead" ELSE "sleeping"

\* A variant in which restarting a backend also resets its breaker
BreakersAfterTickReset(brk, outcomes) ==
    [n \in Names |-> IF TickRestarts(outcomes)[n] > 0
                     THEN [state |-> "closed", failure_count |-> 0, opened |-> 0]
                     ELSE brk[n]]

\* The breakers after a tick: no statement of health_check or of
\* restart_service refers to a breaker
BreakersAfterTick(brk, outcomes) == brk

start_health_check_task ==
    /\ monitor = "unstarted"
    /\ monitor' = "sleeping"
    /\ wakeAt' = now
    /\ UNCHANGED <<now, breakerVars, dispatchVars, probes, restarts, restartFailed,
                   lifecycleVars>>

\* one iteration of the while True loop of health_check
health_check(outcomes, restartOk) ==
    /\ monitor = "sleeping"
    /\ now >= wakeAt
    /\ probes' = TickProbes(outcomes)
    /\ restarts' = TickRestarts(outcomes)
    /\ restartFailed' = (FirstError(outcomes, 1) # 0 /\ ~restartOk)
    /\ monitor' = MonitorAfterTick(outcomes, restartOk)
    /\ wakeAt' = IF monitor' = "sleeping" THEN now + HEALTH_CHECK_INTERVAL ELSE wakeAt
    /\ breaker' = BreakersAfterTick(breaker, outcomes)
    /\ UNCHANGED <<now, inflight, calls, alerts, trips, reopened, rejection,
                   dispatchVars, lifecycleVars>>

(* ------------------------------ lifecycle ------------------------------ *)
\* A variant that writes one replica whatever the scaling factor
ServiceSpecOneReplica(n, port, factor) ==
    [name |-> n,
     build |-> IF n # "main" THEN <<".", "subapps", n>> ELSE <<".">>,
     ports |-> <<[host |-> port, container |-> CONTAINER_PORT]>>,
     replicas |-> 1,
     probe |-> port]

\* services[subapp_name] of generate_docker_compose; the build context is
\* './subapps/<name>', '.' for main
ServiceSpec(n, port, factor) ==
    [name |-> n,
     build |-> IF n # "main" THEN <<".", "subapps", n>> ELSE <<".">>,
     ports |-> <<[host |-> port, container |-> CONTAINER_PORT]>>,
     replicas |-> factor,
     probe |-> port]

\* the services dict: one entry per key of SUBAPP_PORTS
ComposeServices(e) == {ServiceSpec(n, e.ports[n], e.factor) : n \in DOMAIN e.ports}

\* open(DOCKER_COMPOSE_FILE, 'w') raises (~writeOk): nothing is written
generate_docker_compose(writeOk) ==
    /\ manifest' = IF writeOk THEN ComposeServices(env) ELSE manifest
    /\ raised' = IF writeOk THEN "none" ELSE "OSError"
    /\ UNCHANGED <<now, breakerVars, dispatchVars, monitorVars,
                   env, builds, images, fleet, steps, startup, shutdown>>

\* for subapp_name in SUBAPP_PORTS.keys(): the position of the first build
\* that exits non-zero (check=True raises), 0 when none does
RECURSIVE FirstFailure(_, _)
FirstFailure(outcomes, i) ==
    IF i > Len(NameOrder) THEN 0
    ELSE IF ~outcomes[NameOrder[i]] THEN i
    ELSE FirstFailure(outcomes, i + 1)

\* A variant that goes on to the next name after a failed build
BuildsInvokedAll(outcomes) == NameOrder

\* the names 'docker-compose build' is invoked for, in order
BuildsInvoked(outcomes) ==
    LET f == FirstFailure(outcomes, 1) IN
    IF f = 0 THEN NameOrder ELSE SubSeq(NameOrder, 1, f)

\* the names whose build succeeded; the except branch only logs and raises
ImagesBuilt(outcomes) ==
    LET f == FirstFailure(outcomes, 1) IN
    {NameOrder[i] : i \in 1..(IF f = 0 THEN Len(NameOrder) ELSE f - 1)}

BuildRaised(outcomes) ==
    IF FirstFailure(outcomes, 1) # 0 THEN "CalledProcessError" ELSE "none"

build_docker_images(outcomes) ==
    /\ builds' = BuildsInvoked(outcomes)
    /\ images' = images \cup ImagesBuilt(outcomes)
    /\ raised' = BuildRaised(outcomes)
    /\ UNCHANGED <<now, breakerVars, dispatchVars, monitorVars,
                   env, manifest, fleet, steps, startup, shutdown>>

\* subprocess.run(..., "up", "-d", check=True): logs and re-raises
start_services(ok) ==
    /\ fleet' = IF ok THEN "up" ELSE fleet
    /\ raised' = IF ok THEN "none" ELSE "CalledProcessError"
    /\ UNCHANGED <<now, breakerVars, dispatchVars, monitorVars,
                   env, manifest, builds, images, steps, startup, shutdown>>

\* The exception stop_services lets out: CalledProcessError is logged and
\* re-raised by the bare raise of the except branch
StopRaised(ok) == IF ok THEN "none" ELSE "CalledProcessError"

stop_services(ok) ==
    /\ fleet' = IF ok THEN "down" ELSE fleet
    /\ raised' = StopRaised(ok)
    /\ UNCHANGED <<now, breakerVars, dispatchVars, monitorVars,
                   env, manifest, builds, images, steps, startup, shutdown>>

\* The steps __ainit__ invokes, in the order of its statements
StartupOrder == <<"generate", "build", "start", "monitor", "metrics", "signal">>

\* How many of them are invoked: each step that raises ends __ainit__.
\* super().__ainit__() is a method of the imported base class (superOk).
StepsInvoked(superOk, writeOk, outcomes, startOk, metricsOk) ==
    IF ~superOk THEN 0
    ELSE IF ~writeOk THEN 1
    ELSE IF FirstFailure(outcomes, 1) # 0 THEN 2
    ELSE IF ~startOk THEN 3
    ELSE IF ~metricsOk THEN 5
    ELSE 6

StartupRaised(superOk, writeOk, outcomes, startOk, metricsOk) ==
    IF ~superOk THEN "AttributeError"
    ELSE IF ~writeOk THEN "OSError"
    ELSE IF FirstFailure(outcomes, 1) # 0 THEN "CalledProcessError"
    ELSE IF ~startOk THEN "CalledProcessError"
    ELSE IF ~metricsOk THEN "OSError"
    ELSE "none"

__ainit__(superOk, writeOk, outcomes, startOk, metricsOk) ==
    LET k == StepsInvoked(superOk, writeOk, outcomes, startOk, metricsOk) IN
    /\ startup = "none"
    /\ steps' = SubSeq(StartupOrder, 1, k)
    /\ raised' = StartupRaised(superOk, writeOk, outcomes, startOk, metricsOk)
    /\ startup' = IF raised' = "none" THEN "done" ELSE "aborted"
    /\ manifest' = IF k >= 2 THEN ComposeServices(env) ELSE manifest
    /\ builds' = IF k >= 2 THEN BuildsInvoked(outcomes) ELSE builds
    /\ images' = IF k >= 2 THEN images \cup ImagesBuilt(outcomes) ELSE images
    /\ fleet' = IF k >= 4 THEN "up" ELSE fleet
    /\ monitor' = IF k >= 4 /\ monitor = "unstarted" THEN "sleeping" ELSE monitor
    /\ wakeAt' = IF k >= 4 /\ monitor = "unstarted" THEN now ELSE wakeAt
    /\ UNCHANGED <<now, breakerVars, dispatchVars, probes, restarts, restartFailed,
                   env, shutdown>>

\* main.py:2-17 has no 'import sys': sys.exit(0) raises NameError
SysImported == FALSE

\* The exception graceful_shutdown lets out: the one of stop_services, or
\* the NameError of sys.exit
ShutdownRaised(stopOk) ==
    IF StopRaised(stopOk) # "none" THEN StopRaised(stopOk)
    ELSE IF ~SysImported THEN "NameError"
    ELSE "none"

\* whether sys.exit(0) is reached and exits the process
ShutdownExited(stopOk) == StopRaised(stopOk) = "none" /\ SysImported

\* SIGTERM is delivered to the handler registered by __ainit__
graceful_shutdown(stopOk) ==
    /\ startup = "done"
    /\ ~shutdown.exited
    /\ shutdown' = [signalled |-> TRUE,
                    stop |-> IF stopOk THEN "ok" ELSE "failed",
                    exited |-> ShutdownExited(stopOk)]
    /\ fleet' = IF stopOk THEN "down" ELSE fleet
    /\ raised' = ShutdownRaised(stopOk)
    /\ UNCHANGED <<now, breakerVars, dispatchVars, monitorVars,
                   env, manifest, builds, images, steps, startup>>

(* -------------------------------- time --------------------------------- *)
Tick ==
    /\ now + TimeStep <= MaxTime
    /\ now' = now + TimeStep
    /\ UNCHANGED <<breakerVars, dispatchVars, monitorVars, lifecycleVars>>

(* --------------------------- specifications ---------------------------- *)
\* the request path alone, over every request
NextDispatch ==
    \E path \in Paths, method \in Methods, rep \in Replies : dispatch(path, method, rep)

SpecDispatch == Init /\ [][NextDispatch]_vars

\* the breakers, the clock and the request path
NextBreaker ==
    \/ \E n \in Names, mailOk \in BOOLEAN : CallRejected(n, mailOk)
    \/ \E n \in Names : CallEnter(n)
    \/ \E n \in Names, ok \in BOOLEAN : CallReturn(n, ok)
    \/ \E path \in RoutePaths, rep \in RouteReplies : dispatch(path, "GET", rep)
    \/ Tick

SpecBreaker == Init /\ [][NextBreaker]_vars

\* the breakers and the clock alone
NextAlert ==
    \/ \E n \in Names, mailOk \in BOOLEAN : CallRejected(n, mailOk)
    \/ \E n \in Names : CallEnter(n)
    \/ \E n \in Names, ok \in BOOLEAN : CallReturn(n, ok)
    \/ Tick

SpecAlert == Init /\ [][NextAlert]_vars

\* the health monitor and the clock
NextMonitor ==
    \/ start_health_check_task
    \/ \E outcomes \in [Names -> ProbeOutcomes], restartOk \in BOOLEAN :
          health_check(outcomes, restartOk)
    \/ Tick

SpecMonitor == Init /\ [][NextMonitor]_vars

\* the environments the module can be imported under
InitEnv ==
    /\ now = 0
    /\ breaker = [n \in Names |-> [state |-> "closed", failure_count |-> 0, opened |-> 0]]
    /\ inflight = [n \in Names |-> 0]
    /\ calls = 0
    /\ alerts = [n \in Names |-> 0]
    /\ trips = [n \in Names |-> 0]
    /\ reopened = [n \in Names |-> FALSE]
    /\ streak = NoStreak
    /\ request = NoRequest
    /\ reply = NoReply
    /\ response = [kind |-> "none", status |-> 0, who |-> "none"]
    /\ outbound = NoCall
    /\ monitor = "unstarted"
    /\ wakeAt = 0
    /\ probes = [n \in Names |-> "none"]
    /\ restarts = [n \in Names |-> 0]
    /\ restartFailed = FALSE
    /\ rejection = NoRejection
    /\ env \in Envs
    /\ manifest = {}
    /\ builds = <<>>
    /\ images = {}
    /\ fleet = "down"
    /\ steps = <<>>
    /\ startup = "none"
    /\ raised = "none"
    /\ shutdown = NoShutdown

\* the fleet controller under every environment: manifest, builds, start, stop
NextFleet ==
    \/ \E writeOk \in BOOLEAN : generate_docker_compose(writeOk)
    \/ \E outcomes \in [Names -> BOOLEAN] : build_docker_images(outcomes)
    \/ \E ok \in BOOLEAN : start_services(ok)
    \/ \E ok \in BOOLEAN : stop_services(ok)

SpecFleet == InitEnv /\ [][NextFleet]_vars

\* startup, the SIGTERM handler and the request path
NextLifecycle ==
    \/ \E superOk, writeOk, startOk, metricsOk \in BOOLEAN, outcomes \in [Names -> BOOLEAN] :
          __ainit__(superOk, writeOk, outcomes, startOk, metricsOk)
    \/ \E stopOk \in BOOLEAN : graceful_shutdown(stopOk)
    \/ \E path \in RoutePaths, rep \in RouteReplies : dispatch(path, "GET", rep)
    \/ Tick

SpecLifecycle == Init /\ [][NextLifecycle]_vars

\* the health monitor next to the breaker of one backend
NextSupervise ==
    \/ \E mailOk \in BOOLEAN : CallRejected("subapp1", mailOk)
    \/ CallEnter("subapp1")
    \/ \E ok \in BOOLEAN : CallReturn("subapp1", ok)
    \/ start_health_check_task
    \/ \E outcomes \in [Names -> ProbeOutcomes], restartOk \in BOOLEAN :
          health_check(outcomes, restartOk)
    \/ Tick

SpecSupervise == Init /\ [][NextSupervise]_vars

Next == NextSupervise \/ NextAlert \/ NextFleet \/ NextLifecycle \/ NextDispatch \/ NextBreaker \/ NextMonitor

Spec == Init /\ [][Next]_vars

(* ------------------------------- claims -------------------------------- *)
Tripped(n) == breaker[n].state = "open"
StreakFull(n) == streak.name = n /\ streak.count >= FAILURE_THRESHOLD

\* C1: for every backend, its breaker is open exactly when the consecutive
\* failed calls to it have reached failureThreshold (a full run of failed
\* dispatches opens it, and an open breaker has counted the threshold), and
\* every closed-to-open transition has sent exactly one alert.
C1_TripsExactlyAtThreshold ==
    \A n \in Names :
        /\ StreakFull(n) => Tripped(n)
        /\ Tripped(n) => breaker[n].failure_count >= FAILURE_THRESHOLD
        /\ alerts[n] = trips[n]

\* C2: a dispatch to a backend whose breaker is open, with recoveryTimeout
\* not yet elapsed, is answered 503 with no outbound call and leaves the
\* breaker's failure record as it was.
C2_OpenBreakerShortCircuits ==
    [][\A path \in RoutePaths, rep \in RouteReplies :
          (/\ dispatch(path, "GET", rep)
           /\ SubappName(path) \in Names
           /\ Opened(breaker[SubappName(path)], now))
          => (/\ outbound' = NoCall
              /\ response'.status = HTTP_503_SERVICE_UNAVAILABLE
              /\ breaker' = breaker)]_vars

\* C3: once recoveryTimeout has elapsed on an open breaker the next call is
\* let through as a trial; a trial that succeeds closes the breaker with the
\* failure count 0, a trial that fails reopens it with opened = now, and an
\* Open episode that has been reopened has sent at most one alert.
C3_HalfOpenTrial ==
    /\ [][\A n \in Names :
            BreakerState(breaker[n], now) = "half_open" =>
                /\ \A mailOk \in BOOLEAN : ~CallRejected(n, mailOk)
                /\ CallReturn(n, TRUE) =>
                       breaker'[n].state = "closed" /\ breaker'[n].failure_count = 0
                /\ CallReturn(n, FALSE) =>
                       breaker'[n].state = "open" /\ breaker'[n].opened = now]_vars
    /\ [](\A n \in Names :
            (Tripped(n) /\ reopened[n]) => alerts[n] <= 1)

\* C4: once the calls around a trip have all come back, or a full run of
\* failed dispatches has been made, the breaker has made exactly one
\* closed-to-open transition and exactly one alert has been sent.
C4_OneTripOneAlert ==
    \A n \in Names :
        ((Tripped(n) /\ inflight[n] = 0) \/ StreakFull(n))
            => (trips[n] = 1 /\ alerts[n] = 1)

\* The first path segment: the first segment that is not empty
HasSegment(path) == \E i \in 1..Len(path) : path[i] # ""
FirstSegment(path) ==
    path[CHOOSE i \in 1..Len(path) : path[i] # "" /\ \A j \in 1..(i - 1) : path[j] = ""]

\* C5: a request whose first path segment is not a name of the route table
\* is handed to call_next: no outbound call is made and the answer is
\* call_next's, not an error of dispatch.
C5_UnknownFallsThrough ==
    (request # NoRequest /\ HasSegment(request.path) /\ FirstSegment(request.path) \notin Names)
        => (response.kind = "call_next" /\ outbound = NoCall /\ reply = NoReply)

\* an unrouted first segment followed by a route name
C5_Witness ==
    /\ request.path = <<"other", "subapp1">>
    /\ response.kind = "call_next"
    /\ outbound = NoCall

\* C6: for a known backend, an HTTP response of the backend with a 2xx, 3xx
\* or 4xx status is returned to the caller with that status, and a success is
\* recorded on the backend's breaker.
C6_ResponseVerbatim ==
    [][\A path \in Paths, method \in Methods, rep \in Replies :
          (/\ dispatch(path, method, rep)
           /\ SubappName(path) \in Names
           /\ rep.net = "ok" /\ rep.status < 500)
          => (/\ response'.kind = "backend"
              /\ response'.status = rep.status
              /\ breaker'[SubappName(path)] = CallSucceeded(breaker[SubappName(path)]))]_vars

\* C7: for a known backend, a network-level failure of the outbound call
\* gives the caller a 503 naming the backend after one attempt, and a
\* failure is recorded on the backend's breaker.
C7_NetworkFailureIs503 ==
    [][\A path \in Paths, method \in Methods :
          (dispatch(path, method, NetErr) /\ SubappName(path) \in Names)
          => (/\ response'.kind = "http_exception"
              /\ response'.status = HTTP_503_SERVICE_UNAVAILABLE
              /\ response'.who = SubappName(path)
              /\ outbound'.attempts = 1
              /\ breaker'[SubappName(path)] = CallFailed(breaker[SubappName(path)], now))]_vars

\* C8: in a tick, every backend whose probe returned a non-200 status got
\* exactly one restart invocation.
C8_Non200IsRestarted ==
    \A n \in Names : probes[n] = "bad" => restarts[n] = 1

\* C9: after a restart that failed the health-monitor task is still running,
\* asleep until its next tick.
C9_MonitorSurvivesRestartFailure ==
    restartFailed => monitor = "sleeping"

\* what a step did to the breakers
CallEndedOn(a) == inflight'[a] = inflight[a] - 1 \/ alerts'[a] = alerts[a] + 1
BreakerKept(b) ==
    /\ breaker'[b] = breaker[b]
    /\ alerts'[b] = alerts[b]
    /\ trips'[b] = trips[b]
    /\ reopened'[b] = reopened[b]

\* C10: a call on backend A that comes back or is rejected leaves the
\* breaker of every other backend B as it was, and a dispatch (to any
\* backend, failed or not) leaves every breaker as it was; the outcome of a
\* dispatch to B is the one B's own reply gives, whatever the state of the
\* other breakers.
C10_FailuresStayScoped ==
    /\ [][/\ \A a \in Names : CallEndedOn(a) => \A b \in Names \ {a} : BreakerKept(b)
          /\ (calls' = calls /\ inflight' = inflight) => \A b \in Names : BreakerKept(b)]_vars
    /\ [](\A b \in Names :
            /\ (request.path = <<b>> /\ reply = HttpReply(200)) =>
                   response = [kind |-> "backend", status |-> 200, who |-> b]
            /\ (request.path = <<b>> /\ reply = NetErr) =>
                   response = [kind |-> "http_exception",
                               status |-> HTTP_503_SERVICE_UNAVAILABLE, who |-> b])

C10_Witness ==
    /\ Tripped("subapp1")
    /\ streak = [name |-> "subapp1", count |-> FAILURE_THRESHOLD]
    /\ breaker["subapp2"] = [state |-> "closed", failure_count |-> 0, opened |-> 0]
    /\ response = [kind |-> "backend", status |-> 200, who |-> "subapp2"]

\* C11: once the SIGTERM handler has run with a fleet teardown that failed,
\* the process has exited through sys.exit and no exception was let out of
\* the handler (the teardown error was logged, not escalated).
C11_ShutdownReachesExit ==
    (shutdown.signalled /\ shutdown.stop = "failed")
        => (shutdown.exited /\ raised = "none")

\* C12: the steps of startup are invoked in the order generate, build,
\* start, monitor, metrics; when the manifest write, an image build or the
\* fleet start fails, no later step is invoked, the health monitor is not
\* started, and from then on no request is dispatched to a backend.
C12_StartupAbortsCleanly ==
    /\ [](/\ steps = SubSeq(StartupOrder, 1, Len(steps))
          /\ (startup = "aborted" /\ Len(steps) \in 1..3) => monitor = "unstarted")
    /\ [][(startup = "aborted" /\ Len(steps) \in 1..3) =>
             \A path \in RoutePaths, rep \in RouteReplies :
                 ~(dispatch(path, "GET", rep) /\ outbound' # NoCall)]_vars

\* C13: a rejected call gives its caller the CircuitBreakerError and leaves
\* every breaker as it was, whether the alert was sent or the mail transport
\* raised: no exception of the transport reaches the caller.
C13_AlertFailureIsContained ==
    [][\A n \in Names, mailOk \in BOOLEAN :
          CallRejected(n, mailOk) =>
              /\ rejection'.caller = "CircuitBreakerError"
              /\ breaker' = breaker /\ trips' = trips /\ inflight' = inflight]_vars

\* a call was rejected by an open breaker and its alert could not be sent
C13_Witness ==
    /\ rejection = [caller |-> "CircuitBreakerError", mail |-> "failed"]
    /\ \E n \in Names : Tripped(n) /\ alerts[n] > 0

\* C14: a dispatch to a known backend that never answers is ended by the
\* request timeout: the caller is answered 503 naming the backend and the
\* abandoned call is counted as a failure on the backend's breaker.
C14_DispatchBoundedByTimeout ==
    (request # NoRequest /\ reply = NoAnswer)
        => /\ response.kind = "http_exception"
           /\ response.status = HTTP_503_SERVICE_UNAVAILABLE
           /\ breaker[SubappName(request.path)].failure_count > 0

\* C15: the outbound request of a dispatch to a known backend goes to the
\* backend's port with the path and the method of the inbound request.
C15_ForwardPreservesRequest ==
    (request # NoRequest /\ SubappName(request.path) \in Names)
        => /\ outbound.port = SUBAPP_PORTS[SubappName(request.path)]
           /\ outbound.path = request.path
           /\ outbound.method = request.method

\* C16: the manifest written for an environment has exactly one service per
\* entry of the route table, under the entry's name, publishing the entry's
\* port and with the scaling factor as its replica count.
C16_ManifestMatchesTable ==
    manifest # {} =>
        /\ {sv.name : sv \in manifest} = DOMAIN env.ports
        /\ \A n \in DOMAIN env.ports : Cardinality({sv \in manifest : sv.name = n}) = 1
        /\ \A sv \in manifest :
              /\ sv.ports = <<[host |-> env.ports[sv.name], container |-> CONTAINER_PORT]>>
              /\ sv.replicas = env.factor

\* a manifest written under a scaling factor of 2 and ports that differ
\* from the defaults
C16_Witness ==
    /\ env.factor = 2
    /\ env.ports = [main |-> 8002, subapp1 |-> 8000, subapp2 |-> 8001]
    /\ \E sv \in manifest : sv.name = "subapp1" /\ sv.replicas = 2 /\ sv.ports[1].host = 8000
    /\ Cardinality(manifest) = 3

\* C17: in a tick every backend of the route table is probed, whatever the
\* outcome of the probes of the other backends.
C17_EveryBackendProbed ==
    (\E n \in Names : probes[n] # "none") => (\A n \in Names : probes[n] # "none")

\* the first position of a failed build, found without the loop
FailedAt(outcomes, i) ==
    /\ ~outcomes[NameOrder[i]]
    /\ \A j \in 1..(i - 1) : outcomes[NameOrder[j]]

\* C18: build_docker_images invokes the builds in the order of the route
\* table up to the first one that fails and for no later entry, keeps every
\* image built so far, and lets the build error out to its caller; with no
\* failed build it builds every entry and raises nothing.
C18_BuildFailsFast ==
    [][\A outcomes \in [Names -> BOOLEAN] :
          build_docker_images(outcomes) =>
              /\ \A i \in 1..Len(NameOrder) :
                    FailedAt(outcomes, i) =>
                        /\ builds' = SubSeq(NameOrder, 1, i)
                        /\ images' = images \cup {NameOrder[j] : j \in 1..(i - 1)}
                        /\ raised' = "CalledProcessError"
              /\ (\A n \in Names : outcomes[n]) =>
                    /\ builds' = NameOrder
                    /\ images' = images \cup Names
                    /\ raised' = "none"
              /\ images \subseteq images']_vars

\* the build of subapp1 failed after main was built: subapp2 was not tried
C18_Witness ==
    /\ builds = <<"main", "subapp1">>
    /\ images = {"main"}
    /\ raised = "CalledProcessError"

\* C19: a step of the health monitor (its start, a tick with its probes and
\* its restart) leaves every breaker's state, failure count and opening time
\* as they were.
C19_MonitorLeavesBreakers ==
    [][(monitor' # monitor \/ wakeAt' # wakeAt \/ probes' # probes
          \/ restarts' # restarts \/ restartFailed' # restartFailed)
       => breaker' = breaker]_vars

\* subapp1 was restarted by a tick that came after its breaker had opened,
\* and the breaker is still open with its count
C19_Witness ==
    /\ Tripped("subapp1")
    /\ breaker["subapp1"].failure_count >= FAILURE_THRESHOLD
    /\ monitor = "sleeping"
    /\ restarts["subapp1"] = 1
    /\ breaker["subapp1"].opened + HEALTH_CHECK_INTERVAL < wakeAt

\* C20: in a tick, restart_service is invoked only for a backend whose probe
\* raised, never for one whose probe got a response, and at most once in all.
C20_RestartOnlyOnProbeError ==
    /\ \A n \in Names : restarts[n] > 0 => probes[n] = "error"
    /\ \A n \in Names : probes[n] \in {"ok", "bad"} => restarts[n] = 0
    /\ restarts["main"] + restarts["subapp1"] + restarts["subapp2"] <= 1

\* main answered with another status than 200, subapp1's probe raised
C20_Witness ==
    /\ probes["main"] = "bad"
    /\ probes["subapp1"] = "error"
    /\ restarts = [main |-> 0, subapp1 |-> 1, subapp2 |-> 0]
====
